---- MODULE Spec2Model ----
(***************************************************************************)
(* Mp4Parser.py: the box (atom) tree walker Mp4Parser._parse, its consumer *)
(* Mp4Parser.__init__ and the tag value normalizer Mp4Parser._save.        *)
(*                                                                         *)
(* A file is a sequence of bytes (0..255); a tag is the sequence of bytes  *)
(* fd.read(4) returned.  The recursive generator _parse is a stack of      *)
(* frames, one per active call, the innermost last.                        *)
(***************************************************************************)
EXTENDS Integers, Sequences, FiniteSets, TLC

VARIABLES
    in,     \* description of the input file (boxes, truncation, patched size)
    file,   \* the bytes of the open file fd
    stack,  \* frames of _parse: [begin, end, offset, size, tag, bound, at]
    pos,    \* fd's position (fd.tell())
    pc,     \* "run", "yield" (in the consumer), "done", "raised", "failed", "hung"
    pend,   \* the pair the generator has just yielded
    log,    \* what the walker has emitted so far: pairs and diagnostics
    tiles,  \* the byte ranges the cursor has stepped over: [lvl, from, to]
    rec,    \* the Record (the Mp4Parser dict itself): items [key, val]
    worker, \* the Worker thread: its flags, its place in run, what it produced
    gui     \* the MainWindow: "open", "waiting" (in closeEvent), "closed"

vars == <<in, file, stack, pos, pc, pend, log, tiles, rec, worker, gui>>

\* No Worker and no window: Mp4Parser used on its own
NoWorker == [at |-> "none"]
NoWindow == "none"

--------------------------------------------------------------------------
(* Bounds of the model *)

\* boxes in a generated box tree
MaxBoxes == 3
\* boxes in a tree that is then truncated at every byte position
MaxCutBoxes == 2
\* steps of the walker evaluated by Run
Fuel == 40

--------------------------------------------------------------------------
(* Bytes *)

Min(a, b) == IF a < b THEN a ELSE b
Max(a, b) == IF a < b THEN b ELSE a

Last(s) == s[Len(s)]
Pop(s) == SubSeq(s, 1, Len(s) - 1)
SetTop(s, x) == [s EXCEPT ![Len(s)] = x]

\* TLC's integers have 32 bits and Python's have no bound: a number read
\* from the file is kept exactly below Huge and as Huge from there on.
\* The files of the model are far shorter, so that every such size lies
\* past the end of the file (see Exact below).
Huge == 1024 * 1024 * 1024

\* struct.unpack('!I', bs)[0], struct.unpack('!Q', bs)[0] and
\* int.from_bytes(bs, byteorder='big'): big-endian unsigned
RECURSIVE BE(_)
BE(bs) ==
    IF bs = <<>> THEN 0
    ELSE LET hi == BE(Pop(bs))
         IN  IF hi >= Huge \div 256 THEN Huge ELSE hi * 256 + Last(bs)

\* struct.pack of n as w big-endian bytes (used to build the input files)
RECURSIVE Enc(_, _)
Enc(n, w) == IF w = 0 THEN <<>> ELSE Append(Enc(n \div 256, w - 1), n % 256)

Zeros(n) == [i \in 1..n |-> 0]

\* fd.read(n) at position p: at most n bytes, fewer at the end of the file;
\* read(-1) reads to the end of the file
Read(f, p, n) ==
    IF n < 0 THEN SubSeq(f, p + 1, Len(f))
    ELSE SubSeq(f, p + 1, Min(p + n, Len(f)))

\* fd.tell() after that read
Tell(f, p, n) == p + Len(Read(f, p, n))

--------------------------------------------------------------------------
(* Fixed vocabularies *)

CONTAINERS ==
    { <<100, 105, 110, 102>>,  \* dinf
      <<101, 100, 116, 115>>,  \* edts
      <<105, 108, 115, 116>>,  \* ilst
      <<103, 109, 104, 100>>,  \* gmhd
      <<109, 100, 105, 97>>,   \* mdia
      <<109, 101, 116, 97>>,   \* meta
      <<109, 105, 110, 102>>,  \* minf
      <<109, 111, 111, 118>>,  \* moov
      <<115, 116, 98, 108>>,   \* stbl
      <<116, 114, 97, 107>>,   \* trak
      <<116, 114, 101, 102>>,  \* tref
      <<117, 100, 116, 97>> }  \* udta

IGNORE ==
    { <<99, 111, 54, 52>>,     \* co64
      <<99, 116, 116, 115>>,   \* ctts
      <<100, 114, 101, 102>>,  \* dref
      <<101, 108, 115, 116>>,  \* elst
      <<102, 114, 101, 101>>,  \* free
      <<104, 100, 108, 114>>,  \* hdlr
      <<109, 100, 97, 116>>,   \* mdat
      <<115, 100, 116, 112>>,  \* sdtp
      <<115, 116, 99, 111>>,   \* stco
      <<115, 116, 115, 99>>,   \* stsc
      <<115, 116, 115, 100>>,  \* stsd
      <<115, 116, 115, 115>>,  \* stss
      <<115, 116, 116, 115>>,  \* stts
      <<115, 116, 115, 122>> } \* stsz

TagMeta == <<109, 101, 116, 97>>   \* b'meta'
TagMoov == <<109, 111, 111, 118>>  \* b'moov'
TagFree == <<102, 114, 101, 101>>  \* b'free'
TagNam  == <<169, 110, 97, 109>>   \* b'\xa9nam'
TagZzzz == <<122, 122, 122, 122>>  \* b'zzzz', in no table

--------------------------------------------------------------------------
(* Mp4Parser._parse: one loop iteration *)

\* A slip: the four bytes of version and flags of meta forgotten
HeaderSkipAlways8(tag) == 8

\* skip = 12 if tag == b'meta' else 8
HeaderSkip(tag) == IF tag = TagMeta THEN 12 ELSE 8

\* A slip: the extended size taken as it is, the eight bytes it occupies
\* not counted
ReadHeaderNoAdjust(f, off) ==
    LET raw == Read(f, off, 4)
        tag == Read(f, off + 4, 4)
        big == Read(f, off + 8, 8)
    IN  IF Len(raw) < 4
        THEN [ok |-> FALSE, bound |-> FALSE, size |-> 0, tag |-> <<>>,
              offset |-> off, pos |-> Max(off, Len(f))]
        ELSE IF BE(raw) # 1
        THEN [ok |-> TRUE, bound |-> TRUE, size |-> BE(raw), tag |-> tag,
              offset |-> off, pos |-> Min(off + 8, Len(f))]
        ELSE IF Len(big) < 8
        THEN [ok |-> FALSE, bound |-> TRUE, size |-> 1, tag |-> tag,
              offset |-> off, pos |-> Len(f)]
        ELSE [ok |-> TRUE, bound |-> TRUE, size |-> BE(big), tag |-> tag,
              offset |-> off, pos |-> off + 16]

\* Lines 107-114: seek, read the size and the tag, and the 64-bit size when
\* the size field is 1.  ok: no exception; bound: size and tag were assigned
\* by this iteration; offset: the cursor after "offset += 8".
ReadHeader(f, off) ==
    LET raw == Read(f, off, 4)
        tag == Read(f, off + 4, 4)
        big == Read(f, off + 8, 8)
    IN  IF Len(raw) < 4
        THEN [ok |-> FALSE, bound |-> FALSE, size |-> 0, tag |-> <<>>,
              offset |-> off, pos |-> Max(off, Len(f))]
        ELSE IF BE(raw) # 1
        THEN [ok |-> TRUE, bound |-> TRUE, size |-> BE(raw), tag |-> tag,
              offset |-> off, pos |-> Min(off + 8, Len(f))]
        ELSE IF Len(big) < 8
        THEN [ok |-> FALSE, bound |-> TRUE, size |-> 1, tag |-> tag,
              offset |-> off, pos |-> Len(f)]
        ELSE [ok |-> TRUE, bound |-> TRUE, size |-> BE(big) - 8, tag |-> tag,
              offset |-> off + 8, pos |-> off + 16]

\* A frame of _parse(fd, begin, end) before its first iteration
Frame(begin, end) ==
    [begin |-> begin, end |-> end, offset |-> begin, size |-> 0,
     tag |-> <<>>, bound |-> FALSE, at |-> begin]

\* The frame's locals after the header read of this iteration
AfterHeader(fr, h) ==
    IF h.bound
    THEN [fr EXCEPT !.at = fr.offset, !.offset = h.offset, !.size = h.size,
                    !.tag = h.tag, !.bound = TRUE]
    ELSE [fr EXCEPT !.at = fr.offset]

Tile(lvl, from, to) == [lvl |-> lvl, from |-> from, to |-> to]

\* A yielded pair, as logged
Yielded(fr, data) ==
    [ev |-> "yield", tag |-> fr.tag, data |-> data, at |-> fr.at,
     offset |-> fr.offset, size |-> fr.size, begin |-> fr.begin,
     end |-> fr.end, pos |-> 0, fsize |-> 0]

\* Lines 130-139: what the except clause prints.  With tag unbound the
\* print of line 137 raises, after file size, position and range came out.
Diag(fr, p, fsize) ==
    IF fr.bound
    THEN [ev |-> "diag", tag |-> fr.tag, data |-> <<>>, at |-> fr.at,
          offset |-> fr.offset, size |-> fr.size, begin |-> fr.begin,
          end |-> fr.end, pos |-> p, fsize |-> fsize]
    ELSE [ev |-> "diag0", tag |-> <<>>, data |-> <<>>, at |-> fr.at,
          offset |-> 0, size |-> 0, begin |-> fr.begin,
          end |-> fr.end, pos |-> p, fsize |-> fsize]

\* The innermost generator returns: the walk is over, or the caller's loop
\* at line 118 ends and the caller runs "offset += size" (line 126).
Return(c) ==
    LET rest == Pop(c.stack)
    IN  IF rest = <<>>
        THEN [c EXCEPT !.stack = <<>>, !.pc = "done"]
        ELSE LET par == Last(rest)
                 adv == [par EXCEPT !.offset = par.offset + par.size]
             IN  [c EXCEPT !.stack = SetTop(rest, adv),
                           !.tiles = @ \cup {Tile(Len(rest), par.at, adv.offset)}]

\* Lines 129-140: an exception reached the innermost frame's bare except.
\* The handler prints and the generator returns; with tag unbound the
\* handler itself raises, into the caller's try or out of the walker.
RECURSIVE Handler(_, _)
Handler(f, c) ==
    IF c.stack = <<>>
    THEN [c EXCEPT !.pc = "raised"]
    ELSE LET fr == Last(c.stack)
             c1 == [c EXCEPT !.log = Append(@, Diag(fr, c.pos, Len(f))),
                             !.pos = Len(f)]
         IN  IF fr.bound THEN Return(c1)
             ELSE Handler(f, [c1 EXCEPT !.stack = Pop(@)])

\* while offset < end is false: the generator returns
IsLoopExit(f, c) == c.pc = "run" /\ Last(c.stack).offset >= Last(c.stack).end
DoLoopExit(f, c) == Return(c)

\* The header of the box at the cursor
Hdr(f, c) == ReadHeader(f, Last(c.stack).offset)
Cur(f, c) == AfterHeader(Last(c.stack), Hdr(f, c))
InLoop(f, c) == c.pc = "run" /\ Last(c.stack).offset < Last(c.stack).end

\* unpack raises struct.error on a short read
IsHeaderFail(f, c) == InLoop(f, c) /\ ~Hdr(f, c).ok
DoHeaderFail(f, c) ==
    Handler(f, [c EXCEPT !.stack = SetTop(@, Cur(f, c)), !.pos = Hdr(f, c).pos])

\* Lines 116-120: a container: the nested generator starts
IsContainer(f, c) == InLoop(f, c) /\ Hdr(f, c).ok /\ Cur(f, c).tag \in CONTAINERS
DoContainer(f, c) ==
    LET fr == Cur(f, c)
    IN  [c EXCEPT !.stack = Append(SetTop(@, fr),
                      Frame(fr.offset + HeaderSkip(fr.tag), fr.offset + fr.size)),
                  !.pos = Hdr(f, c).pos]

\* An ignored tag: only "offset += size"
IsIgnored(f, c) == InLoop(f, c) /\ Hdr(f, c).ok /\ Cur(f, c).tag \in IGNORE

\* A slip: the cursor moved over the header of the ignored box only
DoIgnoredHeaderOnly(f, c) ==
    LET fr == Cur(f, c)
        adv == [fr EXCEPT !.offset = fr.offset + 8]
    IN  [c EXCEPT !.stack = SetTop(@, adv), !.pos = Hdr(f, c).pos,
                  !.tiles = @ \cup {Tile(Len(c.stack), fr.at, adv.offset)}]

DoIgnored(f, c) ==
    LET fr == Cur(f, c)
        adv == [fr EXCEPT !.offset = fr.offset + fr.size]
    IN  [c EXCEPT !.stack = SetTop(@, adv), !.pos = Hdr(f, c).pos,
                  !.tiles = @ \cup {Tile(Len(c.stack), fr.at, adv.offset)}]

IsLeafTag(f, c) ==
    InLoop(f, c) /\ Hdr(f, c).ok /\ Cur(f, c).tag \notin (CONTAINERS \cup IGNORE)

\* Line 123: fd.read(size-8) raises ValueError for a length below -1
IsLeafFail(f, c) == IsLeafTag(f, c) /\ Cur(f, c).size - 8 < -1
DoLeafFail(f, c) ==
    Handler(f, [c EXCEPT !.stack = SetTop(@, Cur(f, c)), !.pos = Hdr(f, c).pos])

\* Lines 123-124: data = fd.read(size-8); yield tag, data
IsLeaf(f, c) == IsLeafTag(f, c) /\ Cur(f, c).size - 8 >= -1
DoLeaf(f, c) ==
    LET fr == Cur(f, c)
        p == Hdr(f, c).pos
        data == Read(f, p, fr.size - 8)
    IN  [c EXCEPT !.stack = SetTop(@, fr), !.pos = Tell(f, p, fr.size - 8),
                  !.pc = "yield", !.pend = [tag |-> fr.tag, data |-> data],
                  !.log = Append(@, Yielded(fr, data))]

--------------------------------------------------------------------------
(* Python values.  A str is its sequence of code points, a bytes object    *)
(* its sequence of bytes, a float the fraction it was computed from.       *)

PyBytes(bs) == [k |-> "bytes", v |-> bs]
PyStr(cs) == [k |-> "str", v |-> cs]
PyInt(n) == [k |-> "int", v |-> n]
PyFloat(num, den) == [k |-> "float", v |-> <<num, den>>]
PyFalse == [k |-> "bool", v |-> FALSE]
PyNone == [k |-> "none", v |-> 0]
PyList(vs) == [k |-> "list", v |-> vs]
\* a dict: its items in insertion order, each [key, val]
PyDict(kvs) == [k |-> "dict", v |-> kvs]

\* bool(value), the test of "if value:"
Truthy(val) ==
    CASE val.k \in {"bytes", "str", "list", "dict"} -> val.v # <<>>
      [] val.k = "int" -> val.v # 0
      [] val.k = "float" -> val.v[1] # 0
      [] val.k = "bool" -> val.v
      [] OTHER -> FALSE

\* s[a:b] with Python's clamping and negative indices
Slice(s, a, b) ==
    LET n == Len(s)
        lo == IF a < 0 THEN Max(a + n, 0) ELSE Min(a, n)
        hi == IF b < 0 THEN Max(b + n, 0) ELSE Min(b, n)
    IN  SubSeq(s, lo + 1, hi)

\* s[a:]
From(s, a) == Slice(s, a, Len(s))

Reverse(s) == [i \in 1..Len(s) |-> s[Len(s) + 1 - i]]

\* A slip: the bytes taken most significant first
LEAsBigEndian(bs) == BE(bs)

\* int.from_bytes(bs, byteorder='little')
LE(bs) == BE(Reverse(bs))

\* unpack("!i", bs)[0]: big-endian, signed, 32 bits
Signed32(bs) ==
    IF bs[1] >= 128 THEN 0 - (BE([i \in 1..Len(bs) |-> 255 - bs[i]]) + 1)
    ELSE BE(bs)

IsCont(b) == b >= 128 /\ b <= 191

\* The length of the UTF-8 sequence at the head of bs, 0 when it is invalid
Utf8Len(bs) ==
    LET b1 == bs[1]
        b2 == IF Len(bs) >= 2 THEN bs[2] ELSE 0
        b3 == IF Len(bs) >= 3 THEN bs[3] ELSE 0
        b4 == IF Len(bs) >= 4 THEN bs[4] ELSE 0
    IN  CASE b1 < 128 -> 1
          [] b1 >= 194 /\ b1 <= 223 /\ IsCont(b2) -> 2
          [] b1 = 224 /\ b2 >= 160 /\ b2 <= 191 /\ IsCont(b3) -> 3
          [] b1 >= 225 /\ b1 <= 236 /\ IsCont(b2) /\ IsCont(b3) -> 3
          [] b1 = 237 /\ b2 >= 128 /\ b2 <= 159 /\ IsCont(b3) -> 3
          [] b1 >= 238 /\ b1 <= 239 /\ IsCont(b2) /\ IsCont(b3) -> 3
          [] b1 = 240 /\ b2 >= 144 /\ b2 <= 191 /\ IsCont(b3) /\ IsCont(b4) -> 4
          [] b1 >= 241 /\ b1 <= 243 /\ IsCont(b2) /\ IsCont(b3) /\ IsCont(b4) -> 4
          [] b1 = 244 /\ b2 >= 128 /\ b2 <= 143 /\ IsCont(b3) /\ IsCont(b4) -> 4
          [] OTHER -> 0

\* The code point of the n-byte sequence at the head of bs
Utf8Point(bs, n) ==
    CASE n = 1 -> bs[1]
      [] n = 2 -> ((bs[1] % 32) * 64) + (bs[2] % 64)
      [] n = 3 -> ((bs[1] % 16) * 4096) + ((bs[2] % 64) * 64) + (bs[3] % 64)
      [] OTHER -> ((bs[1] % 8) * 262144) + ((bs[2] % 64) * 4096)
                  + ((bs[3] % 64) * 64) + (bs[4] % 64)

\* bytes.decode('utf-8'): ok is FALSE where Python raises UnicodeDecodeError
RECURSIVE Utf8(_)
Utf8(bs) ==
    IF bs = <<>> THEN [ok |-> TRUE, cs |-> <<>>]
    ELSE LET n == Utf8Len(bs)
         IN  IF n = 0 THEN [ok |-> FALSE, cs |-> <<>>]
             ELSE LET rest == Utf8(SubSeq(bs, n + 1, Len(bs)))
                  IN  [ok |-> rest.ok, cs |-> <<Utf8Point(bs, n)>> \o rest.cs]

IsPrefix(p, s) == Len(p) <= Len(s) /\ SubSeq(s, 1, Len(p)) = p

\* str.split(sep): the pieces between the occurrences of sep, left to right
RECURSIVE SplitFrom(_, _, _)
SplitFrom(s, sep, piece) ==
    IF s = <<>> THEN <<piece>>
    ELSE IF IsPrefix(sep, s)
    THEN <<piece>> \o SplitFrom(SubSeq(s, Len(sep) + 1, Len(s)), sep, <<>>)
    ELSE SplitFrom(Tail(s), sep, Append(piece, s[1]))

Split(s, sep) == SplitFrom(s, sep, <<>>)

--------------------------------------------------------------------------
(* Mp4Parser._save: tables *)

TITLES ==
    {
      \* (c)alb: Album
      <<<<169, 97, 108, 98>>,
        <<65, 108, 98, 117, 109>>>>,
      \* (c)ART: Cast
      <<<<169, 65, 82, 84>>,
        <<67, 97, 115, 116>>>>,
      \* (c)nam: Title
      <<<<169, 110, 97, 109>>,
        <<84, 105, 116, 108, 101>>>>,
      \* (c)day: Released
      <<<<169, 100, 97, 121>>,
        <<82, 101, 108, 101, 97, 115, 101, 100>>>>,
      \* (c)gen: Genre
      <<<<169, 103, 101, 110>>,
        <<71, 101, 110, 114, 101>>>>,
      \* (c)cmt: Comment
      <<<<169, 99, 109, 116>>,
        <<67, 111, 109, 109, 101, 110, 116>>>>,
      \* (c)wrt: Writer
      <<<<169, 119, 114, 116>>,
        <<87, 114, 105, 116, 101, 114>>>>,
      \* (c)too: Tool
      <<<<169, 116, 111, 111>>,
        <<84, 111, 111, 108>>>>,
      \* cnID: Catalog ID
      <<<<99, 110, 73, 68>>,
        <<67, 97, 116, 97, 108, 111, 103, 32, 73, 68>>>>,
      \* covr: Cover
      <<<<99, 111, 118, 114>>,
        <<67, 111, 118, 101, 114>>>>,
      \* desc: Description
      <<<<100, 101, 115, 99>>,
        <<68, 101, 115, 99, 114, 105, 112, 116, 105, 111, 110>>>>,
      \* ftyp: File type compatibility
      <<<<102, 116, 121, 112>>,
        <<70, 105, 108, 101, 32, 116, 121, 112, 101, 32, 99, 111, 109, 112, 97, 116, 105, 98, 105, 108, 105, 116, 121>>>>,
      \* gmin: Base media information
      <<<<103, 109, 105, 110>>,
        <<66, 97, 115, 101, 32, 109, 101, 100, 105, 97, 32, 105, 110, 102, 111, 114, 109, 97, 116, 105, 111, 110>>>>,
      \* hdvd: High definition
      <<<<104, 100, 118, 100>>,
        <<72, 105, 103, 104, 32, 100, 101, 102, 105, 110, 105, 116, 105, 111, 110>>>>,
      \* iTunEXTC: iTunes content rating
      <<<<105, 84, 117, 110, 69, 88, 84, 67>>,
        <<105, 84, 117, 110, 101, 115, 32, 99, 111, 110, 116, 101, 110, 116, 32, 114, 97, 116, 105, 110, 103>>>>,
      \* iTunMOVI: iTunes movie information
      <<<<105, 84, 117, 110, 77, 79, 86, 73>>,
        <<105, 84, 117, 110, 101, 115, 32, 109, 111, 118, 105, 101, 32, 105, 110, 102, 111, 114, 109, 97, 116, 105, 111, 110>>>>,
      \* ldes: Description
      <<<<108, 100, 101, 115>>,
        <<68, 101, 115, 99, 114, 105, 112, 116, 105, 111, 110>>>>,
      \* mdhd: Media header
      <<<<109, 100, 104, 100>>,
        <<77, 101, 100, 105, 97, 32, 104, 101, 97, 100, 101, 114>>>>,
      \* mvhd: Movie header
      <<<<109, 118, 104, 100>>,
        <<77, 111, 118, 105, 101, 32, 104, 101, 97, 100, 101, 114>>>>,
      \* sdes: Show description
      <<<<115, 100, 101, 115>>,
        <<83, 104, 111, 119, 32, 100, 101, 115, 99, 114, 105, 112, 116, 105, 111, 110>>>>,
      \* smhd: Sound media informtion
      <<<<115, 109, 104, 100>>,
        <<83, 111, 117, 110, 100, 32, 109, 101, 100, 105, 97, 32, 105, 110, 102, 111, 114, 109, 116, 105, 111, 110>>>>,
      \* stik: Media type
      <<<<115, 116, 105, 107>>,
        <<77, 101, 100, 105, 97, 32, 116, 121, 112, 101>>>>,
      \* tkhd: Track header
      <<<<116, 107, 104, 100>>,
        <<84, 114, 97, 99, 107, 32, 104, 101, 97, 100, 101, 114>>>>,
      \* tref: Track reference
      <<<<116, 114, 101, 102>>,
        <<84, 114, 97, 99, 107, 32, 114, 101, 102, 101, 114, 101, 110, 99, 101>>>>,
      \* trkn: Track number
      <<<<116, 114, 107, 110>>,
        <<84, 114, 97, 99, 107, 32, 110, 117, 109, 98, 101, 114>>>>,
      \* tven: Episode title
      <<<<116, 118, 101, 110>>,
        <<69, 112, 105, 115, 111, 100, 101, 32, 116, 105, 116, 108, 101>>>>,
      \* tvnn: TV station
      <<<<116, 118, 110, 110>>,
        <<84, 86, 32, 115, 116, 97, 116, 105, 111, 110>>>>,
      \* tves: TV episode
      <<<<116, 118, 101, 115>>,
        <<84, 86, 32, 101, 112, 105, 115, 111, 100, 101>>>>,
      \* tvsh: TV show
      <<<<116, 118, 115, 104>>,
        <<84, 86, 32, 115, 104, 111, 119>>>>,
      \* tvsn: TV season
      <<<<116, 118, 115, 110>>,
        <<84, 86, 32, 115, 101, 97, 115, 111, 110>>>>,
      \* vmhd: Video info
      <<<<118, 109, 104, 100>>,
        <<86, 105, 100, 101, 111, 32, 105, 110, 102, 111>>>> }

TagArt == <<169, 65, 82, 84>>  \* b'\xa9ART'
TagGen == <<169, 103, 101, 110>>  \* b'\xa9gen'
TagCnID == <<99, 110, 73, 68>>  \* b'cnID'
TagTves == <<116, 118, 101, 115>>  \* b'tves'
TagTvsn == <<116, 118, 115, 110>>  \* b'tvsn'
TagHdvd == <<104, 100, 118, 100>>  \* b'hdvd'
TagITunEXTC == <<105, 84, 117, 110, 69, 88, 84, 67>>  \* b'iTunEXTC'
TagITunMOVI == <<105, 84, 117, 110, 77, 79, 86, 73>>  \* b'iTunMOVI'
TagFtyp == <<102, 116, 121, 112>>  \* b'ftyp'
TagGmin == <<103, 109, 105, 110>>  \* b'gmin'
TagMdhd == <<109, 100, 104, 100>>  \* b'mdhd'
TagMvhd == <<109, 118, 104, 100>>  \* b'mvhd'
TagSmhd == <<115, 109, 104, 100>>  \* b'smhd'
TagStik == <<115, 116, 105, 107>>  \* b'stik'
TagTkhd == <<116, 107, 104, 100>>  \* b'tkhd'
TagTref == <<116, 114, 101, 102>>  \* b'tref'
TagTrkn == <<116, 114, 107, 110>>  \* b'trkn'
TagVmhd == <<118, 109, 104, 100>>  \* b'vmhd'
TagFreeform == <<45, 45, 45, 45>>  \* b'----'
TagName == <<110, 97, 109, 101>>  \* b'name'
TagData == <<100, 97, 116, 97>>  \* b'data'
TagMean == <<109, 101, 97, 110>>  \* b'mean'

TxtRating == <<82, 97, 116, 105, 110, 103>>  \* 'Rating'
TxtDuration == <<68, 117, 114, 97, 116, 105, 111, 110>>  \* 'Duration'
TxtWidth == <<87, 105, 100, 116, 104>>  \* 'Width'
TxtHeight == <<72, 101, 105, 103, 104, 116>>  \* 'Height'
TxtCommaSpace == <<44, 32>>  \* ', '
TxtBar == <<124>>  \* '|'

TxtMovie == <<77, 111, 118, 105, 101>>  \* 'Movie'
TxtMusic == <<77, 117, 115, 105, 99>>  \* 'Music'
TxtAudiobook == <<65, 117, 100, 105, 111, 98, 111, 111, 107>>  \* 'Audiobook'
TxtMusicVideo == <<77, 117, 115, 105, 99, 32, 118, 105, 100, 101, 111>>  \* 'Music video'
TxtTVShow == <<84, 86, 32, 115, 104, 111, 119>>  \* 'TV show'
TxtBooklet == <<66, 111, 111, 107, 108, 101, 116>>  \* 'Booklet'
TxtRingtone == <<82, 105, 110, 103, 116, 111, 110, 101>>  \* 'Ringtone'
TxtPodcast == <<80, 111, 100, 99, 97, 115, 116>>  \* 'Podcast'
TxtITunesU == <<105, 84, 117, 110, 101, 115, 32, 85>>  \* 'iTunes U'
TxtUnknown == <<85, 110, 107, 110, 111, 119, 110, 32, 35>>  \* 'Unknown #'

--------------------------------------------------------------------------
(* Mp4Parser._save: dictionaries *)

\* A dict is the sequence of its items [key, val] in insertion order
Has(d, key) == \E i \in 1..Len(d) : d[i].key = key
Idx(d, key) == CHOOSE i \in 1..Len(d) : d[i].key = key
Get(d, key) == d[Idx(d, key)].val
\* d[key] = val
Put(d, key, val) ==
    IF Has(d, key) THEN [d EXCEPT ![Idx(d, key)].val = val]
    ELSE Append(d, [key |-> key, val |-> val])

\* Line 167: key = Mp4Parser.TITLES[tag] if tag in Mp4Parser.TITLES else tag
Key(tag) ==
    IF \E p \in TITLES : p[1] = tag
    THEN PyStr((CHOOSE p \in TITLES : p[1] = tag)[2])
    ELSE PyBytes(tag)

\* A slip: a value already a list treated like a scalar
FoldAlwaysPairs(r, key, value) ==
    IF Has(r, key)
    THEN Put(r, key, PyList(<<Get(r, key), value>>))
    ELSE Append(r, [key |-> key, val |-> value])

\* Lines 341-347: one key/value pair into the Record
Fold(r, key, value) ==
    IF Has(r, key)
    THEN IF Get(r, key).k = "list"
         THEN Put(r, key, PyList(Append(Get(r, key).v, value)))
         ELSE Put(r, key, PyList(<<Get(r, key), value>>))
    ELSE Append(r, [key |-> key, val |-> value])

\* Line 340: for key, value in value.items()
RECURSIVE FoldItems(_, _)
FoldItems(r, items) ==
    IF items = <<>> THEN r
    ELSE FoldItems(Fold(r, items[1].key, items[1].val), Tail(items))

\* Lines 338-349: add the parsed data into the dictionary
Add(r, key, value) ==
    IF Truthy(value)
    THEN IF value.k = "dict" THEN FoldItems(r, value.v)
         ELSE FoldItems(r, <<[key |-> key, val |-> value]>>)
    ELSE r

--------------------------------------------------------------------------
(* Mp4Parser._save: the freeform atom *)

\* Lines 150-157: the sub-record loop.  The next offset depends on the
\* offset alone, so an offset met twice means the loop never ends.
RECURSIVE FreeLoop(_, _, _, _)
FreeLoop(value, offset, result, seen) ==
    IF ~(offset < Len(value)) THEN [st |-> "ok", result |-> result]
    ELSE IF offset \in seen THEN [st |-> "hang", result |-> result]
    ELSE LET raw == Slice(value, offset, offset + 4)
         IN  IF Len(raw) # 4 THEN [st |-> "raised", result |-> result]
             ELSE LET size == Signed32(raw)
                      type == Slice(value, offset + 4, offset + 8)
                      sub == Slice(value, offset + 12, offset + size)
                  IN  FreeLoop(value, offset + size, Put(result, type, sub),
                               seen \cup {offset})

\* Lines 149-164: the tag and value _save goes on with
Retarget(tag, value) ==
    IF tag # TagFreeform THEN [st |-> "ok", tag |-> tag, value |-> value]
    ELSE LET r == FreeLoop(value, 0, <<>>, {})
         IN  IF r.st # "ok" THEN [st |-> r.st, tag |-> tag, value |-> value]
             ELSE IF ~Has(r.result, TagName) \/ ~Has(r.result, TagData)
             THEN [st |-> "raised", tag |-> tag, value |-> value]
             ELSE [st |-> "ok", tag |-> Get(r.result, TagName),
                   value |-> Get(r.result, TagData)]

--------------------------------------------------------------------------
(* Mp4Parser._save: the embedded movie information (iTunMOVI) *)

\* An element of the document: its tag, its text (None when it has none)
\* and, for an array, its dict children: whether each has a string child
\* and that child's text.
Node(tag, text, items) == [tag |-> tag, text |-> text, items |-> items]
Item(text) == [has |-> TRUE, text |-> text]

\* ET.fromstring(text).find('dict'): a library call, not code of the
\* repository.  The documents are written as one character each, which
\* stands for the XML text of the element tree given here; every other
\* text is not well-formed.  found: the root has a dict child.
XmlDoc(text) ==
    CASE text = <<49>> ->   \* <key>cast</key><array>2 dicts</array><key>studio</key><string>X</string>
           [ok |-> TRUE, found |-> TRUE, nodes |->
              << Node("key", PyStr(<<99, 97, 115, 116>>), <<>>),
                 Node("array", PyNone, << Item(PyStr(<<65, 108>>)), Item(PyStr(<<66, 111>>)) >>),
                 Node("key", PyStr(<<115, 116, 117, 100, 105, 111>>), <<>>),
                 Node("string", PyStr(<<88>>), <<>>) >>]
      [] text = <<50>> ->   \* <string>X</string><key>cast</key><string>Y</string><string>Z</string>
           [ok |-> TRUE, found |-> TRUE, nodes |->
              << Node("string", PyStr(<<88>>), <<>>),
                 Node("key", PyStr(<<99, 97, 115, 116>>), <<>>),
                 Node("string", PyStr(<<89>>), <<>>),
                 Node("string", PyStr(<<90>>), <<>>) >>]
      [] text = <<51>> ->   \* <key>a</key><key>b</key><string>X</string>
           [ok |-> TRUE, found |-> TRUE, nodes |->
              << Node("key", PyStr(<<97>>), <<>>),
                 Node("key", PyStr(<<98>>), <<>>),
                 Node("string", PyStr(<<88>>), <<>>) >>]
      [] text = <<52>> ->   \* <key>a</key><string/><key>b</key><array/>
           [ok |-> TRUE, found |-> TRUE, nodes |->
              << Node("key", PyStr(<<97>>), <<>>),
                 Node("string", PyNone, <<>>),
                 Node("key", PyStr(<<98>>), <<>>),
                 Node("array", PyNone, <<>>) >>]
      [] text = <<53>> ->   \* a root without a dict child
           [ok |-> TRUE, found |-> FALSE, nodes |-> <<>>]
      [] OTHER -> [ok |-> FALSE, found |-> FALSE, nodes |-> <<>>]

\* str.upper() of one character (ASCII)
Upper(ch) == IF ch >= 97 /\ ch <= 122 THEN ch - 32 ELSE ch

\* Lines 200-212: the walk over the children of the dict element.  key is
\* the variable of _save that line 167 set and the loop reuses.
RECURSIVE MoviWalk(_, _, _)
MoviWalk(nodes, key, results) ==
    IF nodes = <<>> THEN [st |-> "ok", results |-> results]
    ELSE LET node == nodes[1]
         IN  IF node.tag = "key"
             THEN IF node.text.k # "str"
                  THEN [st |-> "raised", results |-> results]
                  ELSE MoviWalk(Tail(nodes),
                                PyStr(<<Upper(node.text.v[1])>> \o Tail(node.text.v)),
                                results)
             ELSE IF Truthy(key) /\ node.tag = "array"
             THEN IF \E i \in 1..Len(node.items) : ~node.items[i].has
                  THEN [st |-> "raised", results |-> results]
                  ELSE MoviWalk(Tail(nodes), PyStr(<<>>),
                                Put(results, key,
                                    PyList([i \in 1..Len(node.items) |->
                                               node.items[i].text])))
             ELSE IF Truthy(key) /\ node.tag = "string"
             THEN MoviWalk(Tail(nodes), PyStr(<<>>), Put(results, key, node.text))
             ELSE MoviWalk(Tail(nodes), key, results)

\* Lines 196-214
Movi(key, value) ==
    LET text == Utf8(From(value, 4))
        doc == XmlDoc(text.cs)
    IN  IF ~text.ok \/ ~doc.ok \/ ~doc.found
        THEN [st |-> "raised", val |-> PyFalse]
        ELSE LET w == MoviWalk(doc.nodes, key, <<>>)
             IN  [st |-> w.st, val |-> PyDict(w.results)]

--------------------------------------------------------------------------
(* Mp4Parser._save: the converters *)

Ok(val) == [st |-> "ok", val |-> val]
Raised == [st |-> "raised", val |-> PyFalse]

\* Lines 177-180: a comma delimited list
TextList(value) ==
    LET text == Utf8(From(value, 16))
        parts == Split(text.cs, TxtCommaSpace)
    IN  IF ~text.ok THEN Raised
        ELSE Ok(PyList([i \in 1..Len(parts) |-> PyStr(parts[i])]))

\* Lines 189-195: <standard>|<rating>|<score>|<reason>
Extc(value) ==
    LET text == Utf8(From(value, 4))
        values == Split(text.cs, TxtBar)
    IN  IF ~text.ok \/ Len(values) < 2 THEN Raised
        ELSE Ok(PyDict(<<[key |-> PyStr(TxtRating), val |-> PyStr(values[2])]>>))

\* Lines 232-243: unpack('>x3x4I2H', value) wants 24 bytes
Mdhd(value) == IF Len(value) # 24 THEN Raised ELSE Ok(PyFalse)

RECURSIVE Gcd(_, _)
Gcd(a, b) == IF b = 0 THEN a ELSE Gcd(b, a % b)

\* values[3] / values[2], a float
Quotient(num, den) ==
    IF num = 0 THEN PyFloat(0, 1)
    ELSE PyFloat(num \div Gcd(num, den), den \div Gcd(num, den))

\* Lines 244-264: unpack('>x3x4IIH74x', value) wants 100 bytes
Mvhd(value) ==
    LET timescale == BE(Slice(value, 12, 16))
        duration == BE(Slice(value, 16, 20))
    IN  IF Len(value) # 100 \/ timescale = 0 THEN Raised
        ELSE Ok(PyDict(<<[key |-> PyStr(TxtDuration),
                          val |-> Quotient(duration, timescale)]>>))

RECURSIVE Digits(_)
Digits(n) == IF n < 10 THEN <<48 + n>> ELSE Append(Digits(n \div 10), 48 + (n % 10))

\* Lines 272-286
Stik(value) ==
    LET n == LE(From(value, 17))
    IN  Ok(PyStr(CASE n = 0 -> TxtMovie
                   [] n = 1 -> TxtMusic
                   [] n = 2 -> TxtAudiobook
                   [] n = 6 -> TxtMusicVideo
                   [] n = 9 -> TxtMovie
                   [] n = 10 -> TxtTVShow
                   [] n = 11 -> TxtBooklet
                   [] n = 14 -> TxtRingtone
                   [] n = 21 -> TxtPodcast
                   [] n = 23 -> TxtITunesU
                   [] OTHER -> TxtUnknown \o Digits(n)))

\* Lines 287-310: unpack('>x3x3I4xI8x2Hh2x36x2I', value) wants 84 bytes
Tkhd(value) ==
    LET group == BE(Slice(value, 34, 36))
        width == BE(Slice(value, 76, 80))
        height == BE(Slice(value, 80, 84))
    IN  IF Len(value) # 84 THEN Raised
        ELSE IF group = 0 /\ width # 0 /\ height # 0
        THEN Ok(PyDict(<<[key |-> PyStr(TxtWidth), val |-> PyInt(width \div 65536)],
                         [key |-> PyStr(TxtHeight), val |-> PyInt(height \div 65536)]>>))
        ELSE Ok(PyFalse)

\* Lines 331-335: the generic leaf
Generic(value) ==
    LET text == Utf8(From(value, 16))
    IN  IF text.ok THEN Ok(PyStr(text.cs)) ELSE Ok(PyBytes(From(value, 16)))

\* Lines 177-335: the converter of the tag
Convert(tag, key, value) ==
    CASE tag \in {TagArt, TagGen} -> TextList(value)
      [] tag \in {TagCnID, TagTves, TagTvsn} -> Ok(PyInt(BE(From(value, 16))))
      [] tag = TagHdvd -> Ok(PyFalse)
      [] tag = TagITunEXTC -> Extc(value)
      [] tag = TagITunMOVI -> Movi(key, value)
      [] tag = TagFtyp -> Ok(PyFalse)
      [] tag = TagGmin -> Ok(PyFalse)
      [] tag = TagMdhd -> Mdhd(value)
      [] tag = TagMvhd -> Mvhd(value)
      [] tag = TagSmhd -> Ok(PyFalse)
      [] tag = TagStik -> Stik(value)
      [] tag = TagTkhd -> Tkhd(value)
      [] tag = TagTref -> Ok(PyFalse)
      [] tag = TagTrkn -> Ok(PyInt(LE(From(value, 8))))
      [] tag = TagVmhd -> Ok(PyFalse)
      [] OTHER -> Generic(value)

\* Mp4Parser._save(tag, value) on the Record r: the Record afterwards, and
\* st: "ok", "raised" (an exception leaves _save) or "hang"
Save(r, tag, value) ==
    LET t == Retarget(tag, value)
        conv == Convert(t.tag, Key(t.tag), t.value)
    IN  IF t.st # "ok" THEN [st |-> t.st, rec |-> r]
        ELSE IF conv.st # "ok" THEN [st |-> conv.st, rec |-> r]
        ELSE [st |-> "ok", rec |-> Add(r, Key(t.tag), conv.val)]

--------------------------------------------------------------------------
(* Mp4Parser.__init__: the consumer of the generator *)

\* Line 93, self._save(type, data), and the generator resumed after its
\* yield: "offset += size" (line 126).  An exception of _save leaves
\* __init__; a _save that never returns leaves the walk where it is.
IsConsume(f, c) == c.pc = "yield"
DoConsume(f, c) ==
    LET s == Save(c.rec, c.pend.tag, c.pend.data)
        fr == Last(c.stack)
        adv == [fr EXCEPT !.offset = fr.offset + fr.size]
    IN  IF s.st = "raised" THEN [c EXCEPT !.pc = "failed"]
        ELSE IF s.st = "hang" THEN [c EXCEPT !.pc = "hung"]
        ELSE [c EXCEPT !.rec = s.rec, !.pc = "run", !.stack = SetTop(@, adv),
                       !.tiles = @ \cup {Tile(Len(c.stack), fr.at, adv.offset)}]

\* The state of one Mp4Parser(filename) on the file f, before the first
\* pair is asked for: fd.seek(0, 2); self._parse(fd, 0, fd.tell())
Start(f) ==
    [stack |-> <<Frame(0, Len(f))>>, pos |-> Len(f), pc |-> "run",
     pend |-> [tag |-> <<>>, data |-> <<>>], log |-> <<>>, tiles |-> {},
     rec |-> <<>>]

\* One step of the walk, whichever it is
Step(f, c) ==
    CASE IsConsume(f, c) -> DoConsume(f, c)
      [] IsLoopExit(f, c) -> DoLoopExit(f, c)
      [] IsHeaderFail(f, c) -> DoHeaderFail(f, c)
      [] IsContainer(f, c) -> DoContainer(f, c)
      [] IsIgnored(f, c) -> DoIgnored(f, c)
      [] IsLeafFail(f, c) -> DoLeafFail(f, c)
      [] IsLeaf(f, c) -> DoLeaf(f, c)
      [] OTHER -> c

\* The walk of f from c, for at most n steps
RECURSIVE Run(_, _, _)
Run(f, c, n) ==
    IF n = 0 \/ c.pc \notin {"run", "yield"} THEN c ELSE Run(f, Step(f, c), n - 1)

--------------------------------------------------------------------------
(* The input files *)

BoxTags == {TagNam, TagZzzz, TagFree, TagMoov, TagMeta}
\* the tags of the files that are then damaged: a leaf, an ignored box, a
\* container
CoreTags == {TagNam, TagFree, TagMoov}

\* What a generated box holds after its header: a title, one byte, a
\* whole box that must stay unread, the version and flags of meta
BodyOf(tag) ==
    CASE tag = TagNam -> Zeros(16) \o <<65>>
      [] tag = TagZzzz -> <<7>>
      [] tag = TagFree -> Enc(8, 4) \o TagZzzz
      [] tag = TagMeta -> Zeros(4)
      [] OTHER -> <<>>

\* A box tree in file order: each box with its tag, whether its size is
\* written in 64 bits, and its nesting depth
Descs(tags) == [tag : tags, ext : BOOLEAN, depth : 0..(MaxBoxes - 1)]

CanFollow(bs, d) ==
    IF bs = <<>> THEN d.depth = 0
    ELSE \/ d.depth <= Last(bs).depth
         \/ d.depth = Last(bs).depth + 1 /\ Last(bs).tag \in CONTAINERS

\* The indices of the boxes written with a 64-bit size
Exts(bs) == {i \in 1..Len(bs) : bs[i].ext}

\* The trees of n boxes, at most one of them with a 64-bit size
RECURSIVE ForestsOf(_, _)
ForestsOf(n, tags) ==
    IF n = 0 THEN {<<>>}
    ELSE UNION {{Append(bs, d) :
                    d \in {x \in Descs(tags) :
                              CanFollow(bs, x) /\ (x.ext => Exts(bs) = {})}} :
                bs \in ForestsOf(n - 1, tags)}

Forests(n, tags) == UNION {ForestsOf(k, tags) : k \in 0..n}

HdrLen(b) == IF b.ext THEN 16 ELSE 8
OwnLen(b) == HdrLen(b) + Len(BodyOf(b.tag))

RECURSIVE SumLen(_, _, _)
SumLen(bs, i, j) == IF i > j THEN 0 ELSE OwnLen(bs[i]) + SumLen(bs, i + 1, j)

\* The boxes nested in box i
Inside(bs, i) ==
    {j \in (i + 1)..Len(bs) : \A k \in (i + 1)..j : bs[k].depth > bs[i].depth}

BoxOff(bs, i) == SumLen(bs, 1, i - 1)
BoxSize(bs, i) == SumLen(bs, i, i + Cardinality(Inside(bs, i)))

\* The size written in the header of box i
Declared(inp, i) == IF inp.bad = i THEN inp.decl ELSE BoxSize(inp.boxes, i)

BoxBytes(inp, i) ==
    LET b == inp.boxes[i]
    IN  (IF b.ext THEN Enc(1, 4) \o b.tag \o Enc(Declared(inp, i), 8)
         ELSE Enc(Declared(inp, i), 4) \o b.tag) \o BodyOf(b.tag)

RECURSIVE Image(_, _)
Image(inp, i) ==
    IF i > Len(inp.boxes) THEN <<>> ELSE BoxBytes(inp, i) \o Image(inp, i + 1)

\* The file: the boxes written out, cut after inp.cut bytes
FileOf(inp) == SubSeq(Image(inp, 1), 1, inp.cut)

Whole(bs) == [boxes |-> bs, bad |-> 0, decl |-> 0, cut |-> SumLen(bs, 1, Len(bs))]

\* Sizes below a header, one that reads to the end, one past the end
BadSizes == {0, 5, 7, 15, 200}

WellFormed == {Whole(bs) : bs \in Forests(MaxBoxes, BoxTags)}

Truncated ==
    UNION {{[Whole(bs) EXCEPT !.cut = t] : t \in 0..(SumLen(bs, 1, Len(bs)) - 1)} :
           bs \in Forests(MaxCutBoxes, CoreTags)}

\* One box declares a wrong size
Patched ==
    UNION {{[Whole(bs) EXCEPT !.bad = p[1], !.decl = p[2]] :
                p \in {j \in 1..Len(bs) : Exts(bs) \subseteq {j}} \X BadSizes} :
           bs \in Forests(MaxBoxes, CoreTags)}

Inputs == WellFormed \cup Truncated \cup Patched

IsWellFormed(inp) == inp.bad = 0 /\ inp.cut = SumLen(inp.boxes, 1, Len(inp.boxes))

--------------------------------------------------------------------------
(* The walk as a state machine *)

Cfg ==
    [stack |-> stack, pos |-> pos, pc |-> pc, pend |-> pend, log |-> log,
     tiles |-> tiles, rec |-> rec]

Apply(c) ==
    /\ stack' = c.stack
    /\ pos' = c.pos
    /\ pc' = c.pc
    /\ pend' = c.pend
    /\ log' = c.log
    /\ tiles' = c.tiles
    /\ rec' = c.rec
    /\ UNCHANGED <<in, file, worker, gui>>

Init ==
    /\ in \in Inputs
    /\ file = FileOf(in)
    /\ stack = Start(file).stack
    /\ pos = Start(file).pos
    /\ pc = Start(file).pc
    /\ pend = Start(file).pend
    /\ log = Start(file).log
    /\ tiles = Start(file).tiles
    /\ rec = Start(file).rec
    /\ worker = NoWorker
    /\ gui = NoWindow

LoopExit == IsLoopExit(file, Cfg) /\ Apply(DoLoopExit(file, Cfg))
HeaderFail == IsHeaderFail(file, Cfg) /\ Apply(DoHeaderFail(file, Cfg))
Container == IsContainer(file, Cfg) /\ Apply(DoContainer(file, Cfg))
Ignored == IsIgnored(file, Cfg) /\ Apply(DoIgnored(file, Cfg))
LeafFail == IsLeafFail(file, Cfg) /\ Apply(DoLeafFail(file, Cfg))
Leaf == IsLeaf(file, Cfg) /\ Apply(DoLeaf(file, Cfg))
Consume == IsConsume(file, Cfg) /\ Apply(DoConsume(file, Cfg))

Next ==
    \/ LoopExit
    \/ HeaderFail
    \/ Container
    \/ Ignored
    \/ LeafFail
    \/ Leaf
    \/ Consume

Spec == Init /\ [][Next]_vars

--------------------------------------------------------------------------
(* What the walk has emitted, and what the box tree says it should *)

IsYield(e) == e.ev = "yield"
IsDiag(e) == e.ev \in {"diag", "diag0"}

\* The pairs yielded so far, in order
Pairs(lg) ==
    LET ys == SelectSeq(lg, IsYield)
    IN  [i \in 1..Len(ys) |-> [tag |-> ys[i].tag, data |-> ys[i].data]]

\* The offsets of the boxes the pairs came from
PairOffsets(lg) ==
    LET ys == SelectSeq(lg, IsYield)
    IN  [i \in 1..Len(ys) |-> ys[i].at]

IsLeafBox(b) == b.tag \notin (CONTAINERS \cup IGNORE)

\* The leaf boxes of the tree from box i on that end at or before byte t,
\* in file order
RECURSIVE LeavesFrom(_, _, _)
LeavesFrom(bs, i, t) ==
    IF i > Len(bs) THEN <<>>
    ELSE (IF IsLeafBox(bs[i]) /\ BoxOff(bs, i) + BoxSize(bs, i) <= t
          THEN <<i>> ELSE <<>>) \o LeavesFrom(bs, i + 1, t)

RefPairs(bs, t) ==
    LET ls == LeavesFrom(bs, 1, t)
    IN  [i \in 1..Len(ls) |-> [tag |-> bs[ls[i]].tag, data |-> BodyOf(bs[ls[i]].tag)]]

RefOffsets(bs, t) ==
    LET ls == LeavesFrom(bs, 1, t)
    IN  [i \in 1..Len(ls) |-> BoxOff(bs, ls[i])]

\* The Record that folding the pairs ps, in order, gives
RECURSIVE FoldPairs(_, _)
FoldPairs(r, ps) ==
    IF ps = <<>> THEN r ELSE FoldPairs(Save(r, ps[1].tag, ps[1].data).rec, Tail(ps))

Over == pc \in {"done", "raised", "failed", "hung"}

\* The whole file length of the input, uncut
FullLen(inp) == SumLen(inp.boxes, 1, Len(inp.boxes))

\* The box whose header the cut falls into, 0 when there is none
CutBox(inp) ==
    LET hit == {i \in 1..Len(inp.boxes) :
                   /\ BoxOff(inp.boxes, i) < inp.cut
                   /\ inp.cut < BoxOff(inp.boxes, i) + HdrLen(inp.boxes[i])}
    IN  IF inp.bad = 0 /\ hit # {} THEN CHOOSE i \in hit : TRUE ELSE 0

\* No number of the walk reached Huge on both sides of "offset < end"
Exact == \A d \in 1..Len(stack) : stack[d].offset < Huge \/ stack[d].end < Huge

--------------------------------------------------------------------------
(* Properties of the walker *)

\* C1: once the walker has hit a malformed-box condition (a diagnostic was
\* printed), anywhere in the box tree, no further pair is yielded: the walk
\* does not go on with a later sibling of the enclosing container.
C1_NoPairAfterFailure ==
    \A i \in 1..Len(log) : \A j \in (i + 1)..Len(log) :
        IsDiag(log[i]) => ~IsYield(log[j])

\* C2: the traversal terminates for every file: on every loop iteration that
\* does not stop the traversal the cursor strictly increases, also over a
\* box that declares a size smaller than its header.
C2_CursorStrictlyIncreases == \A t \in tiles : t.to > t.from

\* C3: iterating the walker never raises an exception to its consumer,
\* whatever the file.
C3_NeverRaises == pc # "raised"

\* C4: for a file cut off inside a box header, the walker yields exactly the
\* pairs of the leaf boxes that lie wholly before the cut and nothing for the
\* cut-off box, the Record is the fold of those pairs, and a diagnostic with
\* that box's offset is printed.
C4_CutInsideHeader ==
    (Over /\ CutBox(in) # 0) =>
        /\ Pairs(log) = RefPairs(in.boxes, in.cut)
        /\ rec = FoldPairs(<<>>, RefPairs(in.boxes, in.cut))
        /\ \E i \in 1..Len(log) :
              log[i].ev = "diag" /\ log[i].offset = BoxOff(in.boxes, CutBox(in))

\* C5: every yielded pair carries a payload of exactly the declared box size
\* minus the header length (size is the declared size less the 8 bytes of an
\* extended header), so a leaf declared past the end of the file yields no
\* pair.
C5_PayloadHasDeclaredLength ==
    \A i \in 1..Len(log) : IsYield(log[i]) => Len(log[i].data) = log[i].size - 8

\* The byte range of every box of the tree, with its nesting level
Layout(bs) ==
    {Tile(bs[i].depth + 1, BoxOff(bs, i), BoxOff(bs, i) + BoxSize(bs, i)) :
        i \in 1..Len(bs)}

NoDiag == \A i \in 1..Len(log) : ~IsDiag(log[i])

\* C6: for a well-formed box tree the walker yields exactly one pair per box
\* whose tag is neither a container nor ignored, in strictly increasing order
\* of box offset, the children of meta found 12 bytes in and those of any
\* other container 8 bytes in; no pair carries a container or ignored tag.
C6_WalkMatchesReference ==
    IsWellFormed(in) =>
        /\ pc \notin {"raised", "failed", "hung"}
        /\ NoDiag
        /\ IsPrefix(Pairs(log), RefPairs(in.boxes, FullLen(in)))
        /\ IsPrefix(PairOffsets(log), RefOffsets(in.boxes, FullLen(in)))
        /\ \A i \in 1..Len(PairOffsets(log)) : \A j \in (i + 1)..Len(PairOffsets(log)) :
              PairOffsets(log)[i] < PairOffsets(log)[j]
        /\ \A i \in 1..Len(log) : log[i].tag \notin (CONTAINERS \cup IGNORE)
        /\ pc = "done" => Pairs(log) = RefPairs(in.boxes, FullLen(in))

\* a finished walk of a tree with a leaf inside meta and two pairs or more
C6_Witness ==
    /\ pc = "done"
    /\ IsWellFormed(in)
    /\ Len(Pairs(log)) >= 2
    /\ \E i \in 1..(Len(in.boxes) - 1) :
          /\ in.boxes[i].tag = TagMeta
          /\ in.boxes[i + 1].depth = in.boxes[i].depth + 1
          /\ IsLeafBox(in.boxes[i + 1])

\* The tree with the size of box i written the other way
Flip(bs, i) == [bs EXCEPT ![i].ext = ~@]

\* The walk of a whole file, from its first step to its end
WalkOf(inp) == Run(FileOf(inp), Start(FileOf(inp)), Fuel)

\* C7: a box written with a direct 32-bit size and the same box written with
\* size field 1 and a 64-bit size give the same walker output, and in both
\* cases the cursor ends at the first byte after the box.
C7_SizeEncodingEquivalence ==
    (pc = "done" /\ IsWellFormed(in)) =>
        \A i \in 1..Len(in.boxes) :
            LET alt == Flip(in.boxes, i)
                other == WalkOf(Whole(alt))
            IN  /\ other.pc = "done"
                /\ Pairs(other.log) = Pairs(log)
                /\ other.rec = rec
                /\ Tile(alt[i].depth + 1, BoxOff(alt, i),
                        BoxOff(alt, i) + BoxSize(alt, i)) \in other.tiles
                /\ Tile(in.boxes[i].depth + 1, BoxOff(in.boxes, i),
                        BoxOff(in.boxes, i) + BoxSize(in.boxes, i)) \in tiles

\* a finished walk with a 64-bit box that has a box after it, and a pair
C7_Witness ==
    /\ pc = "done"
    /\ IsWellFormed(in)
    /\ Pairs(log) # <<>>
    /\ rec # <<>>
    /\ \E i \in 1..(Len(in.boxes) - 1) : in.boxes[i].ext

RECURSIVE TotalLen(_)
TotalLen(ts) ==
    IF ts = {} THEN 0
    ELSE LET t == CHOOSE x \in ts : TRUE IN (t.to - t.from) + TotalLen(ts \ {t})

\* The ranges ts lie in [b, e), do not overlap and leave no gap
Partition(ts, b, e) ==
    /\ \A t \in ts : b <= t.from /\ t.from < t.to /\ t.to <= e
    /\ \A t1 \in ts : \A t2 \in ts : t1 # t2 => t1.to <= t2.from \/ t2.to <= t1.from
    /\ TotalLen(ts) = e - b

\* C8: for a well-formed input the ranges the cursor steps over tile
\* [begin, end) at every nesting level with no gap and no overlap: a box
\* visited at cursor c with size s leaves the cursor at c + s, and the
\* children of a container tile what follows its header (and the 4 bytes of
\* meta).
C8_Tiling ==
    (pc = "done" /\ IsWellFormed(in)) =>
        /\ Layout(in.boxes) \subseteq tiles
        /\ Partition({t \in tiles : t.lvl = 1}, 0, Len(file))
        /\ \A i \in 1..Len(in.boxes) :
              in.boxes[i].tag \in CONTAINERS =>
                  Partition({t \in tiles :
                                /\ t.lvl = in.boxes[i].depth + 2
                                /\ t.from >= BoxOff(in.boxes, i)
                                /\ t.to <= BoxOff(in.boxes, i) + BoxSize(in.boxes, i)},
                            BoxOff(in.boxes, i) + OwnLen(in.boxes[i]),
                            BoxOff(in.boxes, i) + BoxSize(in.boxes, i))

\* a finished walk over an ignored box and a meta box with a child
C8_Witness ==
    /\ pc = "done"
    /\ IsWellFormed(in)
    /\ \E i \in 1..Len(in.boxes) : in.boxes[i].tag = TagFree
    /\ \E i \in 1..(Len(in.boxes) - 1) :
          in.boxes[i].tag = TagMeta /\ in.boxes[i + 1].depth = in.boxes[i].depth + 1
    /\ Cardinality(tiles) = 3

--------------------------------------------------------------------------
(* The normalizer alone: _save called on a Record with leaf after leaf *)

MaxFolds == 3

TxtAlice == <<65, 108, 105, 99, 101>>                        \* 'Alice'
TxtBob == <<66, 111, 98>>                                     \* 'Bob'
TxtCarol == <<67, 97, 114, 111, 108>>                         \* 'Carol'
TxtApple == <<99, 111, 109, 46, 97, 112, 112, 108, 101>>      \* 'com.apple'
TxtMpaa == <<109, 112, 97, 97>>                               \* 'mpaa'
TxtCast == <<67, 97, 115, 116>>                               \* 'Cast'

\* The payload of a text leaf: 16 bytes of sub-header, then the text
TextBody(text) == Zeros(16) \o text

\* One sub-record of a freeform atom: size, type, 4 bytes, value
Sub(type, body) == Enc(12 + Len(body), 4) \o type \o Zeros(4) \o body

\* The payload of a freeform atom: mean, name and data
FreeformBody(name, body) ==
    Sub(TagMean, TxtApple) \o Sub(TagName, name) \o Sub(TagData, body)

\* The payload of mvhd: 100 bytes, time scale at 12 and duration at 16
MvhdBody(timescale, duration) ==
    Zeros(12) \o Enc(timescale, 4) \o Enc(duration, 4) \o Zeros(80)

\* The payload of tkhd: 84 bytes, alternate group at 34, width at 76 and
\* height at 80, both fixed32
TkhdBody(group, width, height) ==
    Zeros(34) \o Enc(group, 2) \o Zeros(40) \o Enc(width, 4) \o Enc(height, 4)

\* <standard>|<rating>|<score>|<reason> after 4 bytes of version and flags
ExtcBody(rating) == Zeros(4) \o TxtMpaa \o TxtBar \o rating \o TxtBar \o <<51>> \o TxtBar

LeafOf(tag, data) == [tag |-> tag, data |-> data]

LeafAlice == LeafOf(TagArt, TextBody(TxtAlice))
LeafBobCarol == LeafOf(TagArt, TextBody(TxtBob \o TxtCommaSpace \o TxtCarol))
LeafTitleA == LeafOf(TagNam, TextBody(<<65>>))

\* The leaves _save is called with
Leaves ==
    { LeafAlice, LeafBobCarol, LeafTitleA,
      LeafOf(TagNam, TextBody(<<>>)),
      LeafOf(TagZzzz, TextBody(<<255>>)),
      LeafOf(TagCnID, TextBody(<<0, 5>>)),
      LeafOf(TagCnID, TextBody(<<0, 0>>)),
      LeafOf(TagHdvd, TextBody(<<1>>)),
      LeafOf(TagMvhd, MvhdBody(2, 6)),
      LeafOf(TagMvhd, MvhdBody(600, 0)),
      LeafOf(TagMvhd, Zeros(99)),
      LeafOf(TagTkhd, TkhdBody(0, 2 * 65536, 3 * 65536)),
      LeafOf(TagTkhd, TkhdBody(0, 2 * 65536, 1)),
      LeafOf(TagFreeform, FreeformBody(TagITunEXTC, ExtcBody(<<82>>))),
      LeafOf(TagFreeform, FreeformBody(TagITunEXTC, ExtcBody(<<>>))),
      LeafOf(TagFreeform, FreeformBody(TagITunMOVI, Zeros(4) \o <<49>>)),
      LeafOf(TagFreeform, FreeformBody(TagITunMOVI, Zeros(4) \o <<52>>)) }

InitSave ==
    /\ in = Whole(<<>>)
    /\ file = <<>>
    /\ stack = <<>>
    /\ pos = 0
    /\ pc = "save"
    /\ pend = [tag |-> <<>>, data |-> <<>>]
    /\ log = <<>>
    /\ tiles = {}
    /\ rec = <<>>
    /\ worker = NoWorker
    /\ gui = NoWindow

\* One call self._save(tag, value): the Record afterwards, and in log how
\* the call ended
SaveCall ==
    /\ pc = "save"
    /\ Len(log) < MaxFolds
    /\ \E lf \in Leaves :
          LET s == Save(rec, lf.tag, lf.data)
          IN  /\ rec' = s.rec
              /\ pend' = lf
              /\ log' = Append(log, [ev |-> IF s.st = "ok" THEN "save" ELSE s.st,
                                     tag |-> lf.tag, data |-> lf.data])
              /\ pc' = IF s.st = "hang" THEN "hung" ELSE "save"
    /\ UNCHANGED <<in, file, stack, pos, tiles, worker, gui>>

NextSave == SaveCall

SpecSave == InitSave /\ [][NextSave]_vars

--------------------------------------------------------------------------
(* The Record against the calls that built it *)

\* The key/value contributions of one leaf, in the order they are folded:
\* none when the call raises or the decoded value is falsy, the items of a
\* dict, the single item key: value otherwise
ItemsOf(tag, data) ==
    LET t == Retarget(tag, data)
        key == Key(t.tag)
        conv == Convert(t.tag, key, t.value)
    IN  IF t.st # "ok" THEN <<>>
        ELSE IF conv.st # "ok" \/ ~Truthy(conv.val) THEN <<>>
        ELSE IF conv.val.k = "dict" THEN conv.val.v
        ELSE <<[key |-> key, val |-> conv.val]>>

\* The contributions of all the calls so far, in order
RECURSIVE AllItems(_)
AllItems(lg) ==
    IF lg = <<>> THEN <<>>
    ELSE AllItems(SubSeq(lg, 1, Len(lg) - 1))
            \o (IF Last(lg).ev = "save" THEN ItemsOf(Last(lg).tag, Last(lg).data)
                ELSE <<>>)

\* The values contributed under key, in order
Under(items, key) ==
    LET mine == SelectSeq(items, LAMBDA it : it.key = key)
    IN  [i \in 1..Len(mine) |-> mine[i].val]

\* v1..vn merged: v1 alone, a list v1 with v2..vn appended as elements, or
\* the list of them all
Merged(vs) ==
    IF Len(vs) = 1 THEN vs[1]
    ELSE IF vs[1].k = "list" THEN PyList(vs[1].v \o Tail(vs))
    ELSE PyList(vs)

AllTruthy(vs) == \A i \in 1..Len(vs) : Truthy(vs[i])

KeysOf(items) == {items[i].key : i \in 1..Len(items)}

\* C9: contributions v1..vn, each non-falsy, folded under one key in that
\* order leave under that key v1 itself (n = 1), the list [v1, ..., vn] when
\* v1 is a scalar, and the list v1 with v2..vn appended as single elements
\* when v1 is a list; folds under other keys change nothing under the key.
\* Two Cast leaves "Alice" and "Bob, Carol" give ["Alice", ["Bob", "Carol"]].
C9_RecordMerge ==
    /\ LET items == AllItems(log)
       IN  /\ KeysOf(rec) = KeysOf(items)
           /\ \A key \in KeysOf(rec) :
                 LET vs == Under(items, key)
                 IN  AllTruthy(vs) => Get(rec, key) = Merged(vs)
    /\ (/\ Len(log) = 2
        /\ [tag |-> log[1].tag, data |-> log[1].data] = LeafAlice
        /\ [tag |-> log[2].tag, data |-> log[2].data] = LeafBobCarol)
       => Get(rec, PyStr(TxtCast))
            = PyList(<<PyStr(TxtAlice), PyList(<<PyStr(TxtBob), PyStr(TxtCarol)>>)>>)

\* "Alice", a Title and then "Bob, Carol": a list grown by a merge, with a
\* fold under another key in between
C9_Witness ==
    /\ Len(log) = 3
    /\ [tag |-> log[1].tag, data |-> log[1].data] = LeafAlice
    /\ [tag |-> log[2].tag, data |-> log[2].data] = LeafTitleA
    /\ [tag |-> log[3].tag, data |-> log[3].data] = LeafBobCarol
    /\ Len(rec) = 2
    /\ Get(rec, PyStr(TxtCast)).k = "list"
    /\ Len(Get(rec, PyStr(TxtCast)).v) = 2

\* three scalars under one key: the list of the three, in order
C9_WitnessScalars ==
    /\ Len(log) = 3
    /\ \A i \in 1..3 : log[i].tag = TagNam /\ log[i].ev = "save"
    /\ Len(rec) = 1
    /\ rec[1].val.k = "list"
    /\ Len(rec[1].val.v) = 3

\* false, '', [], {}, None, 0 and 0.0, and a list holding one of them
Falsy(val) == ~Truthy(val)
HoldsFalsy(val) == Falsy(val) \/ (val.k = "list" /\ \E i \in 1..Len(val.v) : Falsy(val.v[i]))

\* C10: after any sequence of folds no value stored in the Record, directly
\* under a key or as an element appended by a merge, is false, the empty
\* string, the empty list or zero, whichever decoder contributed it.
C10_NoFalsyStored == \A i \in 1..Len(rec) : ~HoldsFalsy(rec[i].val)

--------------------------------------------------------------------------
(* The normalizer leaf by leaf: _save called with leaves of every shape *)

MaxCalls == 2

TxtIdPrefix == <<9, 9, 9, 9, 9, 9, 9, 9>>

\* The payload of trkn: 8 bytes, then the number
TrknBody(head, number) == head \o number

\* The payload of stik: 17 bytes, then the media type
StikBody(fill, type) == [i \in 1..17 |-> fill] \o type

\* The media types the probes carry in the byte at offset 17
StikTypes == {0, 1, 2, 3, 6, 9, 10, 11, 14, 21, 23, 99}

\* A freeform atom without a name, one without data
LeafNoName ==
    LeafOf(TagFreeform, Sub(TagMean, TxtApple) \o Sub(TagData, ExtcBody(<<82>>)))
LeafNoData ==
    LeafOf(TagFreeform, Sub(TagMean, TxtApple) \o Sub(TagName, TagITunEXTC))

\* A sub-record that declares the length n
SubOfLength(type, body, n) ==
    (IF n >= 0 THEN Enc(n, 4)
     ELSE [i \in 1..4 |-> 255 - Enc((-n) - 1, 4)[i]]) \o type \o Zeros(4) \o body

\* Freeform atoms whose sub-records declare a length of 0, below 12,
\* negative, and negative by the length of the sub-record before
FreeformOdd ==
    { LeafOf(TagFreeform, SubOfLength(TagMean, TxtApple, 0)),
      LeafOf(TagFreeform, SubOfLength(TagName, TagITunEXTC, 5)
                             \o Sub(TagData, ExtcBody(<<82>>))),
      LeafOf(TagFreeform, SubOfLength(TagMean, TxtApple, -1)),
      LeafOf(TagFreeform, Sub(TagMean, <<120>>) \o SubOfLength(TagName, <<121>>, -13)),
      LeafOf(TagFreeform, <<>>),
      LeafOf(TagFreeform, <<0, 0>>) }

\* The movie information documents, each in a freeform atom
MoviLeaf(doc) == LeafOf(TagFreeform, FreeformBody(TagITunMOVI, Zeros(4) \o <<doc>>))
MoviDocs == {49, 50, 51, 52, 53, 54}

Probes ==
    {LeafOf(TagTrkn, TrknBody(Zeros(8), n)) :
        n \in {<<0, 5>>, <<5, 0>>, <<5>>, <<0, 0>>, <<>>, <<1, 1>>}}
    \cup {LeafOf(TagTrkn, TrknBody(TxtIdPrefix, <<5>>)), LeafOf(TagTrkn, Zeros(3))}
    \cup {LeafOf(TagTkhd, TkhdBody(g, w, h)) :
            g \in {0, 1}, w \in {0, 1, 2 * 65536}, h \in {0, 3 * 65536 + 5}}
    \cup {LeafOf(TagTkhd, Zeros(83))}
    \cup {LeafOf(TagStik, StikBody(0, <<n>>)) : n \in StikTypes}
    \cup {LeafOf(TagStik, StikBody(7, <<n>>)) : n \in {10, 99}}
    \cup {LeafOf(TagStik, StikBody(0, <<10, 1>>)), LeafOf(TagStik, StikBody(0, <<10, 0>>)),
          LeafOf(TagStik, Zeros(5))}
    \cup {LeafNoName, LeafNoData,
          LeafOf(TagFreeform, FreeformBody(TagITunEXTC, ExtcBody(<<82>>)))}
    \cup FreeformOdd
    \cup {MoviLeaf(doc) : doc \in MoviDocs}
    \cup {LeafTitleA}

\* One call self._save(tag, value) with a probe
ProbeCall ==
    /\ pc = "save"
    /\ Len(log) < MaxCalls
    /\ \E lf \in Probes :
          LET s == Save(rec, lf.tag, lf.data)
          IN  /\ rec' = s.rec
              /\ pend' = lf
              /\ log' = Append(log, [ev |-> IF s.st = "ok" THEN "save" ELSE s.st,
                                     tag |-> lf.tag, data |-> lf.data])
              /\ pc' = IF s.st = "hang" THEN "hung" ELSE "save"
    /\ UNCHANGED <<in, file, stack, pos, tiles, worker, gui>>

NextProbe == ProbeCall

SpecProbe == InitSave /\ [][NextProbe]_vars

--------------------------------------------------------------------------
(* Properties of the decoders *)

LeafAt(i) == [tag |-> log[i].tag, data |-> log[i].data]

\* The Record of one key and its value
OneEntry(title, val) == <<[key |-> PyStr(title), val |-> val]>>

\* C11: a freeform leaf without a "name" or without a "data" sub-record
\* contributes nothing and stops nothing: the call returns without an
\* exception and the Record is the one the other leaves alone give.
C11_FreeformLackingNameOrData ==
    \A i \in 1..Len(log) :
        LeafAt(i) \in {LeafNoName, LeafNoData} =>
            /\ log[i].ev = "save"
            /\ rec = FoldPairs(<<>>, SelectSeq([j \in 1..Len(log) |-> LeafAt(j)],
                                               LAMBDA lf : lf \notin {LeafNoName, LeafNoData}))

TxtTrackNumber == <<84, 114, 97, 99, 107, 32, 110, 117, 109, 98, 101, 114>>
TxtMediaType == <<77, 101, 100, 105, 97, 32, 116, 121, 112, 101>>

\* The bytes read least significant first
RECURSIVE LittleEndian(_)
LittleEndian(bs) == IF bs = <<>> THEN 0 ELSE bs[1] + 256 * LittleEndian(Tail(bs))

\* The first call was made with a leaf of this tag and returned
FirstIs(tag) == Len(log) = 1 /\ log[1].tag = tag /\ log[1].ev = "save"

\* C12 (as stated): 8 zero bytes followed by 00 05 store the integer 5 under
\* "Track number".
C12_ExampleStoresFive ==
    (FirstIs(TagTrkn) /\ log[1].data = TrknBody(Zeros(8), <<0, 5>>)) =>
        rec = OneEntry(TxtTrackNumber, PyInt(5))

\* C12 (amended): a trkn leaf is decoded by dropping the first 8 payload
\* bytes and reading the rest as one little-endian unsigned integer, which is
\* stored under "Track number" unless it is 0; 8 zero bytes followed by 00 05
\* store 1280, followed by 05 00 they store 5.
C12_TrackNumberLittleEndian ==
    /\ \A i \in 1..Len(log) : log[i].tag = TagTrkn => log[i].ev = "save"
    /\ FirstIs(TagTrkn) =>
          LET n == LittleEndian(SubSeq(log[1].data, 9, Len(log[1].data)))
          IN  rec = IF n = 0 THEN <<>> ELSE OneEntry(TxtTrackNumber, PyInt(n))
    /\ (FirstIs(TagTrkn) /\ log[1].data = TrknBody(Zeros(8), <<0, 5>>)) =>
          rec = OneEntry(TxtTrackNumber, PyInt(1280))
    /\ (FirstIs(TagTrkn) /\ log[1].data = TrknBody(Zeros(8), <<5, 0>>)) =>
          rec = OneEntry(TxtTrackNumber, PyInt(5))

\* the leaf of the example decoded, and a leaf whose first 8 bytes are not 0
C12_Witness ==
    /\ Len(log) = 2
    /\ LeafAt(1) = LeafOf(TagTrkn, TrknBody(Zeros(8), <<0, 5>>))
    /\ LeafAt(2) = LeafOf(TagTrkn, TrknBody(TxtIdPrefix, <<5>>))
    /\ rec = OneEntry(TxtTrackNumber, PyList(<<PyInt(1280), PyInt(5)>>))

\* C13: a tkhd leaf adds Width and Height, the integer parts of the 16.16
\* width and height, only when its alternate group is 0 and both dimensions
\* are not 0; otherwise it adds no key; it never adds a Width or Height of 0.
C13_TrackHeader ==
    (FirstIs(TagTkhd) /\ Len(log[1].data) = 84) =>
        LET group == BE(SubSeq(log[1].data, 35, 36))
            width == BE(SubSeq(log[1].data, 77, 80))
            height == BE(SubSeq(log[1].data, 81, 84))
        IN  /\ rec = IF group = 0 /\ width # 0 /\ height # 0
                     THEN <<[key |-> PyStr(TxtWidth), val |-> PyInt(width \div 65536)],
                            [key |-> PyStr(TxtHeight), val |-> PyInt(height \div 65536)]>>
                     ELSE <<>>
            /\ \A e \in 1..Len(rec) : rec[e].val # PyInt(0)

\* The closed enumeration of media types
MediaType(n) ==
    CASE n \in {0, 9} -> <<77, 111, 118, 105, 101>>
      [] n = 1 -> <<77, 117, 115, 105, 99>>
      [] n = 2 -> <<65, 117, 100, 105, 111, 98, 111, 111, 107>>
      [] n = 6 -> <<77, 117, 115, 105, 99, 32, 118, 105, 100, 101, 111>>
      [] n = 10 -> <<84, 86, 32, 115, 104, 111, 119>>
      [] n = 11 -> <<66, 111, 111, 107, 108, 101, 116>>
      [] n = 14 -> <<82, 105, 110, 103, 116, 111, 110, 101>>
      [] n = 21 -> <<80, 111, 100, 99, 97, 115, 116>>
      [] n = 23 -> <<105, 84, 117, 110, 101, 115, 32, 85>>
      [] OTHER -> <<85, 110, 107, 110, 111, 119, 110, 32, 35>> \o Digits(n)

\* C14: for a stik leaf the single byte at payload offset 17 determines the
\* stored "Media type" through the enumeration, any other value N giving
\* "Unknown #N"; the other bytes of the payload do not change the result.
C14_MediaTypeFromOneByte ==
    \A i \in 1..Len(log) :
        (log[i].tag = TagStik /\ Len(log[i].data) >= 18) =>
            /\ log[i].ev = "save"
            /\ Len(log) = 1 =>
                  rec = OneEntry(TxtMediaType, PyStr(MediaType(log[1].data[18])))

\* The walk of a movie information document in which a value is stored only
\* under the name of an earlier key node not yet used
RECURSIVE NamedValues(_, _, _)
NamedValues(nodes, name, results) ==
    IF nodes = <<>> THEN results
    ELSE LET node == nodes[1]
             val == IF node.tag = "array"
                    THEN PyList([i \in 1..Len(node.items) |-> node.items[i].text])
                    ELSE node.text
         IN  IF node.tag = "key"
             THEN NamedValues(Tail(nodes),
                              <<PyStr(<<Upper(node.text.v[1])>> \o Tail(node.text.v))>>,
                              results)
             ELSE IF name # <<>>
             THEN NamedValues(Tail(nodes), <<>>, Put(results, name[1], val))
             ELSE NamedValues(Tail(nodes), name, results)

\* C16: in the movie information walk an array or string node is stored
\* only under the name set by an earlier key node of the document that no
\* value has used yet; a value before any key, or after the name was used,
\* adds no entry (none under the title of the leaf itself); of consecutive
\* keys the later names the value.
C16_OrphanValuesIgnored ==
    (FirstIs(TagFreeform) /\ \E doc \in {49, 50, 51, 52} : LeafAt(1) = MoviLeaf(doc)) =>
        rec = NamedValues(XmlDoc(<<Last(log[1].data)>>).nodes, <<>>, <<>>)

\* C18: the sub-record loop of a freeform payload terminates, whatever
\* lengths the sub-records declare: 0, below 12 or negative.
C18_FreeformLoopEnds ==
    \A i \in 1..Len(log) : log[i].tag = TagFreeform => log[i].ev # "hang"

--------------------------------------------------------------------------
(* Worker.run and the MainWindow that pauses, resumes and closes it *)

MaxVideos == 2

TagDay == <<169, 100, 97, 121>>     \* b'\xa9day'
TagTvsh == <<116, 118, 115, 104>>   \* b'tvsh'
TxtTitle == <<84, 105, 116, 108, 101>>                    \* 'Title'
TxtReleased == <<82, 101, 108, 101, 97, 115, 101, 100>>   \* 'Released'
TxtTVSeason == <<84, 86, 32, 115, 101, 97, 115, 111, 110>> \* 'TV season'
TxtYear == <<50, 48, 48, 49>>                             \* '2001'

\* A box: its length on four bytes, its type, its payload
Boxed(tag, body) == Enc(8 + Len(body), 4) \o tag \o body

\* Leaf boxes, one after the other
RECURSIVE FlatFile(_)
FlatFile(leaves) ==
    IF leaves = <<>> THEN <<>>
    ELSE Boxed(leaves[1].tag, leaves[1].data) \o FlatFile(Tail(leaves))

LeafDay == LeafOf(TagDay, TextBody(TxtYear))
LeafShow == LeafOf(TagTvsh, TextBody(<<83>>))

\* The media files of the directory: a movie (inside moov, then a free
\* box), a second movie, a movie without a release date, an episode, a
\* movie followed by a cut-off box header, a file of one byte, a file with
\* a freeform atom without a name, an empty file, a movie followed by a
\* box of declared length 0
Videos ==
    { Boxed(TagMoov, FlatFile(<<LeafTitleA, LeafDay>>)) \o Boxed(TagFree, <<>>),
      FlatFile(<<LeafOf(TagNam, TextBody(<<66>>)), LeafDay>>),
      FlatFile(<<LeafTitleA>>),
      FlatFile(<<LeafShow>>),
      FlatFile(<<LeafTitleA, LeafDay>>) \o <<0, 0, 0>>,
      <<0>>,
      FlatFile(<<LeafTitleA, LeafDay, LeafNoName>>),
      <<>>,
      FlatFile(<<LeafTitleA, LeafDay>>) \o Zeros(4) \o TagNam }

\* The walk of f from c to its end, or for n steps: the steps that
\* LoopExit .. Consume take one at a time
RECURSIVE Walked(_, _, _)
Walked(f, c, n) ==
    IF n = 0 \/ c.pc \notin {"run", "yield"} THEN c
    ELSE CHOOSE r \in {Walked(f, s, n - 1) : s \in {Step(f, c)}} : TRUE

\* r = Mp4Parser(file)
Mp4ParserOf(f) == Walked(f, Start(f), Fuel)

\* The files of a list, each with what Mp4Parser(file) makes of it (line
\* 437): it depends on the bytes of the file alone
Listed(vs) == [k \in 1..Len(vs) |-> [bytes |-> vs[k], r |-> Mp4ParserOf(vs[k])]]

\* The lists of files os.walk can give
RECURSIVE VideoLists(_)
VideoLists(n) ==
    IF n = 0 THEN {<<>>}
    ELSE VideoLists(n - 1)
            \cup {Append(vs, v) : vs \in {x \in VideoLists(n - 1) : Len(x) = n - 1},
                                  v \in Videos}

\* r.get(key, default)
GetOr(r, key, default) == IF Has(r, key) THEN Get(r, key) ELSE default

\* Lines 441-523: the keys of the catalogs after the Record r of a file
\* (season and show of an episode, year and title of a movie; a key
\* already there is kept), or the KeyError of a movie without 'Released'
\* or 'Title' (line 495)
Catalogued(w, r) ==
    IF Has(r, PyStr(TxtTVShow))
    THEN [ok |-> TRUE, movies |-> w.movies,
          tv |-> w.tv \cup {<<GetOr(r, PyStr(TxtTVSeason), PyInt(0)),
                               Get(r, PyStr(TxtTVShow))>>}]
    ELSE IF ~Has(r, PyStr(TxtReleased)) \/ ~Has(r, PyStr(TxtTitle))
    THEN [ok |-> FALSE, movies |-> w.movies, tv |-> w.tv]
    ELSE LET released == Get(r, PyStr(TxtReleased))
         IN  [ok |-> TRUE, tv |-> w.tv,
              movies |-> w.movies
                  \cup {<<[released EXCEPT !.v = Slice(@, 0, 4)],
                          Get(r, PyStr(TxtTitle))>>}]

InitWorker ==
    /\ in \in {Listed(vs) : vs \in VideoLists(MaxVideos)}
    /\ file = <<>>
    /\ stack = <<>>
    /\ pos = 0
    /\ pc = "none"
    /\ pend = [tag |-> <<>>, data |-> <<>>]
    /\ log = <<>>
    /\ tiles = {}
    /\ rec = <<>>
    /\ worker = [at |-> "stopped?", paused |-> FALSE, stopped |-> FALSE, i |-> 0,
                 movies |-> {}, tv |-> {}, error |-> FALSE, complete |-> FALSE,
                 written |-> {}]
    /\ gui = "open"

Rest == UNCHANGED <<in, file, stack, pos, pc, pend, log, tiles, rec, gui>>

\* Lines 422-423: the next file of the list, "if self._stopped: break"
CheckStopped ==
    /\ worker.at = "stopped?"
    /\ worker' = [worker EXCEPT !.at = IF worker.i >= Len(in) \/ worker.stopped
                                      THEN "finish" ELSE "paused?"]
    /\ Rest

\* Line 424: "if self._paused:"
CheckPaused ==
    /\ worker.at = "paused?"
    /\ worker' = [worker EXCEPT !.at = IF worker.paused THEN "while" ELSE "process"]
    /\ Rest

\* Line 426: "while self._paused:"
WhilePaused ==
    /\ worker.at = "while"
    /\ worker' = [worker EXCEPT !.at = IF worker.paused THEN "sleep" ELSE "process"]
    /\ Rest

\* Line 426: sleep(0.1)
Sleep ==
    /\ worker.at = "sleep"
    /\ worker' = [worker EXCEPT !.at = "while"]
    /\ Rest

\* Lines 431-541: one file processed.  An exception of Mp4Parser or of the
\* cataloguing emits criticalError and run returns (lines 535-539); a
\* decoder that does not end keeps the thread in the file.
Processed ==
    LET r == in[worker.i + 1].r
        c == Catalogued(worker, r.rec)
    IN  IF r.pc = "hung"
        THEN [worker |-> [worker EXCEPT !.at = "hung"], rec |-> rec]
        ELSE IF r.pc # "done" \/ ~c.ok
        THEN [worker |-> [worker EXCEPT !.at = "returned", !.error = TRUE],
              rec |-> IF r.pc = "done" THEN r.rec ELSE rec]
        ELSE [worker |-> [worker EXCEPT !.at = "stopped?", !.i = @ + 1,
                                        !.movies = c.movies, !.tv = c.tv],
              rec |-> r.rec]

Process ==
    /\ worker.at = "process"
    /\ worker' = Processed.worker
    /\ rec' = Processed.rec
    /\ UNCHANGED <<in, file, stack, pos, pc, pend, log, tiles, gui>>

\* Lines 543-569: the catalogs written and complete emitted
Finish ==
    /\ worker.at = "finish"
    /\ worker' = [worker EXCEPT !.at = "returned", !.complete = TRUE,
                     !.written = (IF worker.movies # {} THEN {"movies"} ELSE {})
                                    \cup (IF worker.tv # {} THEN {"tv"} ELSE {})]
    /\ Rest

\* The steps of the worker thread
WorkerRun == CheckStopped \/ CheckPaused \/ WhilePaused \/ Sleep \/ Process \/ Finish

\* MainWindow._pauseResume (lines 725-737): resume() when paused, else pause()
PauseResume ==
    /\ gui = "open"
    /\ worker' = [worker EXCEPT !.paused = ~@]
    /\ UNCHANGED <<in, file, stack, pos, pc, pend, log, tiles, rec, gui>>

\* MainWindow.closeEvent (lines 801-811): cancel(), then wait()
CloseEvent ==
    /\ gui = "open"
    /\ worker' = [worker EXCEPT !.stopped = TRUE]
    /\ gui' = "waiting"
    /\ UNCHANGED <<in, file, stack, pos, pc, pend, log, tiles, rec>>

\* wait() returns once run has returned
WaitReturns ==
    /\ gui = "waiting"
    /\ worker.at = "returned"
    /\ gui' = "closed"
    /\ UNCHANGED <<in, file, stack, pos, pc, pend, log, tiles, rec, worker>>

NextWorker ==
    \/ CheckStopped
    \/ CheckPaused
    \/ WhilePaused
    \/ Sleep
    \/ Process
    \/ Finish
    \/ PauseResume
    \/ CloseEvent
    \/ WaitReturns

\* The worker thread keeps running and a wait() that can return does; the
\* user need never press a button.
SpecWorker ==
    InitWorker /\ [][NextWorker]_vars /\ WF_vars(WorkerRun) /\ WF_vars(WaitReturns)

\* C15: a file whose decoding or cataloguing fails does not abort the batch:
\* unless the run was cancelled, it returns only after every file of the
\* list was processed, with the catalogs that are not empty written and the
\* completion signal emitted.
C15_BatchIsolation ==
    (worker.at = "returned" /\ ~worker.stopped) =>
        /\ worker.i = Len(in)
        /\ worker.complete
        /\ worker.movies # {} => "movies" \in worker.written
        /\ worker.tv # {} => "tv" \in worker.written

\* C17: once cancel() has been called, run eventually returns, whatever the
\* interleaving of pause(), resume() and cancel() with the processing loop.
C17_CancelLeadsToReturn == worker.stopped ~> (worker.at = "returned")

====
